---- MODULE Spec2Model ----
(***************************************************************************)
(* The model-list loader of AIModelSelectorEnhanced                        *)
(* (src/src/components/AIModelSelectorEnhanced.tsx): the component's       *)
(* state, refs and memoised values, the props it receives from the host,   *)
(* its event handlers and effects, and every invocation of                 *)
(* loadRemoteModels with its suspension points (vault key, fetch, body).   *)
(*                                                                         *)
(* Strings are sequences of one-character strings, so that trim, slice,    *)
(* includes, startsWith and the 401/403 pattern are computed as the code   *)
(* computes them.  null is the empty sequence where the code never stores  *)
(* an empty string (the error, lastLoadedBaseRef, pendingBaseRef).         *)
(*                                                                         *)
(* One action is one event-loop task: the handler or the continuation of   *)
(* an awaited promise, followed by the render it causes and the effects    *)
(* of that render (state updates of one task are batched into one render). *)
(***************************************************************************)
EXTENDS Integers, Sequences, FiniteSets, TLC

(* ---------------------------- bounds ---------------------------------- *)

\* Invocations of loadRemoteModels that get past the early returns of lines
\* 191-209 in one run, in the specifications about overlapping invocations.
MaxCalls == 2

\* The same, in the specifications that vary the URLs, the responses and the
\* teardown.
MaxCallsAlone == 1

\* Length of the long error body, one more than the slice keeps.
LongBodyLen == 201

(* ----------------------- program constants ---------------------------- *)

\* errorText.slice(0, 200)
SnippetLen == 200

\* API_ENDPOINTS.OPENAI_BASE, the value the field's placeholder shows.
OPENAI_BASE ==
  <<"h","t","t","p","s",":","/","/","a","p","i",".","o","p","e","n","a","i",".","c","o","m","/","v","1">>

MissingSchemeError ==
  <<"E","n","t","e","r"," ","a"," ","f","u","l","l"," ","b","a","s","e"," ","U","R","L"," ","i","n","c","l","u","d","i","n","g"," ","p","r","o","t","o","c","o","l"," ","(","e",".","g","."," ","h","t","t","p","s",":","/","/","s","e","r","v","e","r","/","v","1",")",".">>

HttpsOnlyError ==
  <<"O","n","l","y"," ","H","T","T","P","S"," ","e","n","d","p","o","i","n","t","s"," ","a","r","e"," ","a","l","l","o","w","e","d"," ","(","e","x","c","e","p","t"," ","l","o","c","a","l","h","o","s","t"," ","f","o","r"," ","t","e","s","t","i","n","g",")",".">>

AddApiKeyError ==
  <<"E","n","d","p","o","i","n","t"," ","r","e","j","e","c","t","e","d"," ","t","h","e"," ","r","e","q","u","e","s","t"," ","(","4","0","1","/","4","0","3",")","."," ","A","d","d"," ","a","n"," ","A","P","I"," ","k","e","y"," ","o","r"," ","a","d","j","u","s","t"," ","s","e","r","v","e","r"," ","a","u","t","h"," ","s","e","t","t","i","n","g","s",".">>

UnableToLoadError ==
  <<"U","n","a","b","l","e"," ","t","o"," ","l","o","a","d"," ","m","o","d","e","l","s"," ","f","r","o","m"," ","e","n","d","p","o","i","n","t",".">>

\* line 363; gemini and groq take the branches anthropic takes and are left out.
cloudProviders == <<"openai", "anthropic", "custom">>

\* The static registry: the model ids of each provider, in order.
REASONING_PROVIDERS ==
  [openai |-> <<"gpt-a">>, anthropic |-> <<"claude-a">>]

Null == <<>>

(* ------------------------- string functions --------------------------- *)

Whitespace == {" ", "\t", "\n", "\r"}

WordChars ==
  {"_"} \cup {(<<"a","b","c","d","e","f","g","h","i","j","k","l","m","n","o","p","q","r","s","t","u","v","w","x","y","z">>)[i] : i \in 1..26}
        \cup {(<<"A","B","C","D","E","F","G","H","I","J","K","L","M","N","O","P","Q","R","S","T","U","V","W","X","Y","Z">>)[i] : i \in 1..26}
        \cup {(<<"0","1","2","3","4","5","6","7","8","9">>)[i] : i \in 1..10}

RECURSIVE TrimStart(_)
TrimStart(s) ==
  IF s # <<>> /\ Head(s) \in Whitespace THEN TrimStart(Tail(s)) ELSE s

RECURSIVE TrimEnd(_)
TrimEnd(s) ==
  IF s # <<>> /\ s[Len(s)] \in Whitespace
    THEN TrimEnd(SubSeq(s, 1, Len(s) - 1)) ELSE s

\* String.prototype.trim
Trim(s) == TrimEnd(TrimStart(s))

\* String.prototype.slice(from, to) with 0 <= from <= to (0-based, end excluded)
Slice(s, from, to) ==
  SubSeq(s, from + 1, IF to < Len(s) THEN to ELSE Len(s))

\* String.prototype.startsWith
StartsWith(s, prefix) ==
  Len(prefix) <= Len(s) /\ SubSeq(s, 1, Len(prefix)) = prefix

\* String.prototype.includes
Includes(s, part) ==
  \E p \in 1..(Len(s) - Len(part) + 1) : SubSeq(s, p, p + Len(part) - 1) = part

\* `${n}` of a status code (three digits)
DigitChar(d) == (<<"0","1","2","3","4","5","6","7","8","9">>)[d + 1]

StatusString(n) ==
  <<DigitChar(n \div 100), DigitChar((n \div 10) % 10), DigitChar(n % 10)>>

RECURSIVE StripTrailingSlashes(_)
StripTrailingSlashes(s) ==
  IF s # <<>> /\ s[Len(s)] = "/"
    THEN StripTrailingSlashes(SubSeq(s, 1, Len(s) - 1)) ELSE s

\* normalizeBaseUrl of ../config/constants: trim, then strip trailing slashes.
normalizeBaseUrl(value) == StripTrailingSlashes(Trim(value))

\* line 238: normalizedBase.includes('://')
HasScheme(normalizedBase) == Includes(normalizedBase, <<":","/","/">>)

\* line 248
isLocalhost(normalizedBase) ==
  \/ Includes(normalizedBase, <<":","/","/","l","o","c","a","l","h","o","s","t">>)
  \/ Includes(normalizedBase, <<":","/","/","1","2","7",".","0",".","0",".","1">>)

\* line 249, negated: the endpoint passes the security check
IsAllowedEndpoint(normalizedBase) ==
  StartsWith(normalizedBase, <<"h","t","t","p","s",":","/","/">>) \/ isLocalhost(normalizedBase)

\* lines 238-256: the check that ends the invocation before the fetch, if any
UrlRejection(normalizedBase) ==
  IF ~HasScheme(normalizedBase) THEN "scheme"
  ELSE IF ~IsAllowedEndpoint(normalizedBase) THEN "insecure"
  ELSE "none"

\* /\b(401|403)\b/.test(message)
unauthorized(message) ==
  \E p \in 1..(Len(message) - 2) :
    /\ SubSeq(message, p, p + 2) \in {<<"4", "0", "1">>, <<"4", "0", "3">>}
    /\ (p = 1 \/ message[p - 1] \notin WordChars)
    /\ (p + 2 = Len(message) \/ message[p + 3] \notin WordChars)

\* lines 273-278: the message of the Error thrown for a non-2xx response
HttpErrorSummary(status, statusText, errorText) ==
  Trim(IF errorText # <<>>
         THEN StatusString(status) \o <<" ">> \o Slice(errorText, 0, SnippetLen)
         ELSE StatusString(status) \o <<" ">> \o statusText)

\* response.ok
ResponseOk(status) == status >= 200 /\ status <= 299

\* lines 329-338: the error shown for a caught exception
CaughtError(thrown, apiKey) ==
  LET message == IF thrown # <<>> THEN thrown ELSE UnableToLoadError
  IN  IF unauthorized(message) /\ apiKey = <<>> THEN AddApiKeyError ELSE message

\* lines 284-288
RawModels(payload) ==
  IF payload.hasData THEN payload.data
  ELSE IF payload.hasModels THEN payload.models
  ELSE <<>>

\* lines 292-309: item?.id || item?.name, entries without one dropped
RECURSIVE MappedModels(_)
MappedModels(rawModels) ==
  IF rawModels = <<>> THEN <<>>
  ELSE LET item == Head(rawModels)
           value == IF item.id # "" THEN item.id ELSE item.name
       IN  (IF value # "" THEN <<value>> ELSE <<>>) \o MappedModels(Tail(rawModels))

Range(seq) == {seq[i] : i \in DOMAIN seq}

(* ------------------------------ inputs -------------------------------- *)

UrlHttpsA ==
  <<"h","t","t","p","s",":","/","/","a">>

UrlHttpsASlash ==
  <<"h","t","t","p","s",":","/","/","a","/">>

UrlHttpB ==
  <<"h","t","t","p",":","/","/","b">>

UrlLocalhost ==
  <<"h","t","t","p",":","/","/","l","o","c","a","l","h","o","s","t">>

UrlLookalike ==
  <<"h","t","t","p",":","/","/","l","o","c","a","l","h","o","s","t",".","b">>

UrlNoScheme ==
  <<"a">>

LongBody == [i \in 1..LongBodyLen |-> "x"]

Body401 ==
  <<"4", "0", "1">>

NoArray == <<>>

\* What response.json() may yield: {} (also when it rejects), data, models.
PayloadNone ==
  [hasData |-> FALSE, data |-> NoArray, hasModels |-> FALSE, models |-> NoArray]

PayloadData ==
  [hasData |-> TRUE, data |-> <<[id |-> "m1", name |-> ""], [id |-> "m2", name |-> ""]>>,
   hasModels |-> FALSE, models |-> NoArray]

PayloadModels ==
  [hasData |-> FALSE, data |-> NoArray, hasModels |-> TRUE,
   models |-> <<[id |-> "", name |-> ""], [id |-> "", name |-> "m2"]>>]

\* What fetch may resolve with.
Ok == [status |-> 200, statusText |-> <<"O", "K">>]

Unauthorized == [status |-> 401, statusText |-> <<>>]

ServerError == [status |-> 500, statusText |-> <<"E", "r", "r">>]

(* ------------------------------- state -------------------------------- *)

VARIABLES
  \* props, owned by the host
  cloudReasoningBaseUrl, reasoningModel, openaiApiKey, localReasoningProvider,
  \* useState
  selectedCloudProvider, customModelOptions, customModelsLoading,
  customModelsError, customBaseInput,
  \* useRef
  lastLoadedBaseRef, pendingBaseRef, isMountedRef, latestReasoningBaseRef,
  \* useMemo: the value selectedCloudModels holds after the last render
  selectedCloudModels,
  \* the suspended invocations of loadRemoteModels, oldest first
  calls,
  \* "rendered" (first render done, effects not yet run), "mounted", "unmounted"
  lifecycle,
  \* history: the normalized base of the latest call of loadRemoteModels,
  \* whether the latest accepted invocation has finished, and the last task
  lastRequestedBase, newestDone, ev,
  \* history: the list installed when lastLoadedBaseRef was last set (line 324)
  lastLoadedModels,
  \* environment: how many more invocations may get past the early returns
  remaining

vars ==
  <<cloudReasoningBaseUrl, reasoningModel, openaiApiKey, localReasoningProvider,
    selectedCloudProvider, customModelOptions, customModelsLoading,
    customModelsError, customBaseInput, lastLoadedBaseRef, pendingBaseRef,
    isMountedRef, latestReasoningBaseRef, selectedCloudModels, calls,
    lifecycle, lastRequestedBase, newestDone, ev, lastLoadedModels, remaining>>

\* The state as one record, so that a handler is a function from state to state.
\* touched: setCustomModelOptions was called in this task (a new array identity);
\* overflow: the task would start an invocation the environment has no room for;
\* afterEmpty: the loader state right after a call that took the branch of lines
\* 191-199 in this task, if any.
St ==
  [cloudReasoningBaseUrl |-> cloudReasoningBaseUrl,
   reasoningModel |-> reasoningModel,
   openaiApiKey |-> openaiApiKey,
   localReasoningProvider |-> localReasoningProvider,
   selectedCloudProvider |-> selectedCloudProvider,
   customModelOptions |-> customModelOptions,
   customModelsLoading |-> customModelsLoading,
   customModelsError |-> customModelsError,
   customBaseInput |-> customBaseInput,
   lastLoadedBaseRef |-> lastLoadedBaseRef,
   pendingBaseRef |-> pendingBaseRef,
   isMountedRef |-> isMountedRef,
   latestReasoningBaseRef |-> latestReasoningBaseRef,
   selectedCloudModels |-> selectedCloudModels,
   calls |-> calls,
   lifecycle |-> lifecycle,
   lastRequestedBase |-> lastRequestedBase,
   newestDone |-> newestDone,
   lastLoadedModels |-> lastLoadedModels,
   remaining |-> remaining,
   touched |-> FALSE,
   overflow |-> FALSE,
   afterEmpty |-> <<>>]

Commit(s) ==
  /\ cloudReasoningBaseUrl' = s.cloudReasoningBaseUrl
  /\ reasoningModel' = s.reasoningModel
  /\ openaiApiKey' = s.openaiApiKey
  /\ localReasoningProvider' = s.localReasoningProvider
  /\ selectedCloudProvider' = s.selectedCloudProvider
  /\ customModelOptions' = s.customModelOptions
  /\ customModelsLoading' = s.customModelsLoading
  /\ customModelsError' = s.customModelsError
  /\ customBaseInput' = s.customBaseInput
  /\ lastLoadedBaseRef' = s.lastLoadedBaseRef
  /\ pendingBaseRef' = s.pendingBaseRef
  /\ isMountedRef' = s.isMountedRef
  /\ latestReasoningBaseRef' = s.latestReasoningBaseRef
  /\ selectedCloudModels' = s.selectedCloudModels
  /\ calls' = s.calls
  /\ lifecycle' = s.lifecycle
  /\ lastRequestedBase' = s.lastRequestedBase
  /\ newestDone' = s.newestDone
  /\ lastLoadedModels' = s.lastLoadedModels
  /\ remaining' = s.remaining

(* -------------------------- loadRemoteModels -------------------------- *)

RemoveAt(seq, i) == SubSeq(seq, 1, i - 1) \o SubSeq(seq, i + 1, Len(seq))

\* setCustomModelOptions
SetOptions(s, options) ==
  [s EXCEPT !.customModelOptions = options, !.touched = TRUE]

\* CanApply without the staleness check, and without the mount check.
CanApplyAnyBase(s, normalizedBase) == s.isMountedRef

CanApplyUnmounted(s, normalizedBase) == s.latestReasoningBaseRef = normalizedBase

\* The guard of every state update after an await (lines 240, 251, 313, 328, 345).
CanApply(s, normalizedBase) ==
  s.isMountedRef /\ s.latestReasoningBaseRef = normalizedBase

\* Finally without the release of the pending marker, and without the reset of
\* the loading flag.
FinallyKeepsPending(s, i) ==
  LET c == s.calls[i]
      s2 == IF CanApply(s, c.base) THEN [s EXCEPT !.customModelsLoading = FALSE] ELSE s
  IN  [s2 EXCEPT !.calls = RemoveAt(s.calls, i),
                 !.newestDone = (s.newestDone \/ i = Len(s.calls))]

FinallyKeepsLoading(s, i) ==
  LET c == s.calls[i]
      s1 == IF s.pendingBaseRef = c.base THEN [s EXCEPT !.pendingBaseRef = Null] ELSE s
  IN  [s1 EXCEPT !.calls = RemoveAt(s.calls, i),
                 !.newestDone = (s.newestDone \/ i = Len(s.calls))]

\* lines 341-348: the finally block; the invocation is over.
Finally(s, i) ==
  LET c == s.calls[i]
      s1 == IF s.pendingBaseRef = c.base THEN [s EXCEPT !.pendingBaseRef = Null] ELSE s
      s2 == IF CanApply(s1, c.base) THEN [s1 EXCEPT !.customModelsLoading = FALSE] ELSE s1
  IN  [s2 EXCEPT !.calls = RemoveAt(s.calls, i),
                 !.newestDone = (s.newestDone \/ i = Len(s.calls))]

\* Catch without setCustomModelOptions([]).
CatchKeepsOptions(s, i, thrown) ==
  LET c == s.calls[i]
      s1 == IF CanApply(s, c.base)
              THEN [s EXCEPT !.customModelsError = CaughtError(thrown, c.apiKey)]
              ELSE s
  IN  Finally(s1, i)

\* lines 326-340: the catch block, then finally.
Catch(s, i, thrown) ==
  LET c == s.calls[i]
      s1 == IF CanApply(s, c.base)
              THEN SetOptions([s EXCEPT !.customModelsError = CaughtError(thrown, c.apiKey)],
                              <<>>)
              ELSE s
  IN  Finally(s1, i)

\* ProceedsToFetch with the return statements missing.
ProceedsToFetchAlways(normalizedBase) == TRUE

\* lines 244 and 255: a rejected base returns before the fetch.
ProceedsToFetch(normalizedBase) == UrlRejection(normalizedBase) = "none"

\* lines 232-269: from the resolved key to the fetch.
ResumeAfterKey(s, i, apiKey) ==
  LET c == s.calls[i]
      rejection == UrlRejection(c.base)
      message == IF rejection = "scheme" THEN MissingSchemeError ELSE HttpsOnlyError
      s1 == IF rejection # "none" /\ CanApply(s, c.base)
              THEN [s EXCEPT !.customModelsError = message, !.customModelsLoading = FALSE]
              ELSE s
  IN  IF ProceedsToFetch(c.base)
        THEN [s1 EXCEPT !.calls[i].pc = "fetch", !.calls[i].apiKey = apiKey]
        ELSE Finally(s1, i)

\* lines 281-325: the body of a 2xx response is parsed, mapped and applied.
ApplyPayload(s, i, payload) ==
  LET c == s.calls[i]
      mappedModels == MappedModels(RawModels(payload))
      s1 == SetOptions(s, mappedModels)
      s2 == IF mappedModels # <<>> /\ c.reasoningModel \notin Range(mappedModels)
              THEN [s1 EXCEPT !.reasoningModel = mappedModels[1]]
              ELSE s1
      s3 == [s2 EXCEPT !.customModelsError = Null, !.lastLoadedBaseRef = c.base,
                       !.lastLoadedModels = mappedModels]
  IN  Finally(IF CanApply(s, c.base) THEN s3 ELSE s, i)

\* The loader state: the option list, the flags and the two guard keys.
LoaderStateOf(s) ==
  [options |-> s.customModelOptions, loading |-> s.customModelsLoading,
   error |-> s.customModelsError, lastLoadedBase |-> s.lastLoadedBaseRef,
   pendingBase |-> s.pendingBaseRef]

\* ClearForEmptyBase without the three updates.
ClearForEmptyBaseKeepsState(s) ==
  [s EXCEPT !.afterEmpty = IF s.isMountedRef THEN <<LoaderStateOf(s)>> ELSE @]

\* lines 191-199: the normalized base is empty
ClearForEmptyBase(s) ==
  LET cleared == SetOptions([s EXCEPT !.customModelsLoading = FALSE,
                                      !.customModelsError = Null], <<>>)
  IN  IF s.isMountedRef
        THEN [cleared EXCEPT !.afterEmpty = <<LoaderStateOf(cleared)>>]
        ELSE s

\* lines 178-269: the call, up to its first await.  closure holds the props the
\* callback captured at the render that created it.
LoadRemoteModels(s, closure, hasOverride, baseOverride, force) ==
  LET rawBase == IF hasOverride THEN baseOverride ELSE closure.cloudReasoningBaseUrl
      normalizedBase == normalizeBaseUrl(rawBase)
      g == [s EXCEPT !.lastRequestedBase = normalizedBase]
      call == [base |-> normalizedBase, pc |-> "key", apiKey |-> <<>>,
               reasoningModel |-> closure.reasoningModel, force |-> force,
               status |-> 0, statusText |-> <<>>]
      s1 == [g EXCEPT !.latestReasoningBaseRef = IF hasOverride THEN normalizedBase ELSE @,
                      !.pendingBaseRef = normalizedBase,
                      !.newestDone = FALSE,
                      !.remaining = @ - 1,
                      !.calls = Append(@, call)]
      s2 == IF s1.isMountedRef
              THEN SetOptions([s1 EXCEPT !.customModelsLoading = TRUE,
                                         !.customModelsError = Null], <<>>)
              ELSE s1
      keyFromState == Trim(closure.openaiApiKey)
  IN  IF normalizedBase = <<>> THEN ClearForEmptyBase(g)
      ELSE IF ~force /\ g.lastLoadedBaseRef = normalizedBase THEN g
      ELSE IF ~force /\ g.pendingBaseRef = normalizedBase THEN g
      ELSE IF g.remaining = 0 THEN [g EXCEPT !.overflow = TRUE]
      ELSE IF keyFromState # <<>> THEN ResumeAfterKey(s2, Len(s2.calls), keyFromState)
      ELSE s2

ClosureOf(s) ==
  [cloudReasoningBaseUrl |-> s.cloudReasoningBaseUrl,
   openaiApiKey |-> s.openaiApiKey,
   reasoningModel |-> s.reasoningModel]

(* ------------------------- render and effects ------------------------- *)

\* lines 352-355
isCustomBaseDirty(s) == Trim(s.customBaseInput) # Trim(s.cloudReasoningBaseUrl)

\* lines 356-361
displayedCustomModels(s) ==
  IF isCustomBaseDirty(s) THEN <<>> ELSE s.customModelOptions

\* lines 373-391: the function useMemo calls when a dependency has changed
ComputeSelectedCloudModels(s) ==
  IF s.selectedCloudProvider = "openai" THEN REASONING_PROVIDERS.openai
  ELSE IF s.selectedCloudProvider = "custom" THEN displayedCustomModels(s)
  ELSE REASONING_PROVIDERS[s.selectedCloudProvider]

\* line 392: the dependencies are selectedCloudProvider, openaiModelOptions
\* (never changes) and customModelOptions.
MemoDepsChanged(pre, s) ==
  s.selectedCloudProvider # pre.selectedCloudProvider \/ s.touched

Render(pre, s) ==
  [s EXCEPT !.selectedCloudModels =
              IF MemoDepsChanged(pre, s) THEN ComputeSelectedCloudModels(s) ELSE @,
            !.touched = FALSE]

\* lines 430-453
AutoLoadEffect(s) ==
  LET normalizedBase == normalizeBaseUrl(s.cloudReasoningBaseUrl)
  IN  IF s.selectedCloudProvider # "custom" THEN s
      ELSE IF normalizedBase = <<>>
        THEN [SetOptions([s EXCEPT !.customModelsError = Null], <<>>)
                EXCEPT !.customModelsLoading = FALSE, !.lastLoadedBaseRef = Null]
      ELSE IF s.pendingBaseRef = normalizedBase \/ s.lastLoadedBaseRef = normalizedBase
        THEN s
      ELSE LoadRemoteModels(s, ClosureOf(s), FALSE, <<>>, FALSE)

\* The effects of lines 159-161, 169-171 and 430-453, each run when one of its
\* dependencies differs from the previous render's.
RunEffects(pre, s) ==
  LET before == normalizeBaseUrl(pre.cloudReasoningBaseUrl)
      now == normalizeBaseUrl(s.cloudReasoningBaseUrl)
      e1 == IF s.cloudReasoningBaseUrl # pre.cloudReasoningBaseUrl
              THEN [s EXCEPT !.customBaseInput = s.cloudReasoningBaseUrl] ELSE s
      e2 == IF now # before THEN [e1 EXCEPT !.latestReasoningBaseRef = now] ELSE e1
      changed == \/ s.selectedCloudProvider # pre.selectedCloudProvider
                 \/ now # before
                 \/ ClosureOf(s) # ClosureOf(pre)
  IN  IF changed THEN AutoLoadEffect(e2) ELSE e2

\* What follows a task on a mounted component: the render of its batched
\* updates, the effects, and the render of the effects' own updates.
AfterTask(pre, s) ==
  IF s.lifecycle = "mounted"
    THEN LET r == Render(pre, s) IN Render(r, RunEffects(pre, r))
    ELSE s

(* ------------------------------ handlers ------------------------------ *)

\* lines 394-400
handleApplyCustomBase(s) ==
  LET trimmedBase == Trim(s.customBaseInput)
      s1 == [s EXCEPT !.customBaseInput = trimmedBase,
                      !.cloudReasoningBaseUrl = trimmedBase,
                      !.lastLoadedBaseRef = Null]
  IN  LoadRemoteModels(s1, ClosureOf(s), TRUE, trimmedBase, TRUE)

\* lines 402-408
handleResetCustomBase(s) ==
  LET s1 == [s EXCEPT !.customBaseInput = OPENAI_BASE,
                      !.cloudReasoningBaseUrl = OPENAI_BASE,
                      !.lastLoadedBaseRef = Null]
  IN  LoadRemoteModels(s1, ClosureOf(s), TRUE, OPENAI_BASE, TRUE)

\* lines 410-421
handleRefreshCustomModels(s) ==
  IF isCustomBaseDirty(s) THEN handleApplyCustomBase(s)
  ELSE IF Trim(s.customBaseInput) = <<>> THEN s
  ELSE LoadRemoteModels(s, ClosureOf(s), FALSE, <<>>, TRUE)

\* line 587: the Refresh button is disabled
RefreshDisabled(s) ==
  \/ s.customModelsLoading
  \/ (Trim(s.customBaseInput) = <<>> /\ Trim(s.cloudReasoningBaseUrl) = <<>>)

\* lines 456-478
handleCloudProviderChange(s, provider) ==
  LET s1 == [s EXCEPT !.selectedCloudProvider = provider,
                      !.localReasoningProvider = provider]
      s2 == [s1 EXCEPT !.customBaseInput = s.cloudReasoningBaseUrl,
                       !.lastLoadedBaseRef = Null,
                       !.pendingBaseRef = Null]
  IN  IF provider = "custom"
        THEN IF s.customModelOptions # <<>>
               THEN [s2 EXCEPT !.reasoningModel = s.customModelOptions[1]]
             ELSE IF normalizeBaseUrl(s.cloudReasoningBaseUrl) # <<>>
               THEN LoadRemoteModels(s2, ClosureOf(s), FALSE, <<>>, FALSE)
             ELSE s2
        ELSE IF REASONING_PROVIDERS[provider] # <<>>
               THEN [s1 EXCEPT !.reasoningModel = REASONING_PROVIDERS[provider][1]]
               ELSE s1

(* ------------------------------- tasks -------------------------------- *)

\* The record of the last task.  A continuation of loadRemoteModels records
\* which await resumed (op), the invocation's base, how the invocation went on
\* (outcome: "suspended" again, "rejected" by the URL checks, "failed" in the
\* catch block, "loaded" a 2xx body), whether the guard of line 313/328 let it
\* apply, whether an API key was resolved, and the response it read.  Every
\* task records the loader state after a call with an empty base (afterEmpty).
EvOther(op) ==
  [op |-> op, base |-> <<>>, outcome |-> "", applied |-> FALSE, hadKey |-> FALSE,
   status |-> 0, statusText |-> <<>>, text |-> <<>>, models |-> <<>>,
   afterEmpty |-> <<>>]

EvCont(op, c, outcome, key, text, models) ==
  [op |-> op, base |-> c.base, outcome |-> outcome,
   applied |-> CanApply(St, c.base), hadKey |-> key # <<>>,
   status |-> c.status, statusText |-> c.statusText, text |-> text, models |-> models,
   afterEmpty |-> <<>>]

ContinuationOps == {"key", "fetch", "body"}

Finish(pre, s, e) ==
  LET t == AfterTask(pre, s)
  IN  /\ ~t.overflow
      /\ Commit(t)
      /\ ev' = [e EXCEPT !.afterEmpty = t.afterEmpty]

\* The state after the first render, for a host holding one of the given bases.
Constructed(bases, n) ==
  /\ remaining = n
  /\ cloudReasoningBaseUrl \in bases
  /\ reasoningModel = ""
  /\ openaiApiKey = <<>>
  /\ localReasoningProvider \in {"openai", "custom"}
  /\ selectedCloudProvider = "openai"
  /\ customModelOptions = <<>>
  /\ customModelsLoading = FALSE
  /\ customModelsError = Null
  /\ customBaseInput = cloudReasoningBaseUrl
  /\ lastLoadedBaseRef = Null
  /\ pendingBaseRef = Null
  /\ isMountedRef = TRUE
  /\ latestReasoningBaseRef = normalizeBaseUrl(cloudReasoningBaseUrl)
  /\ selectedCloudModels = REASONING_PROVIDERS.openai
  /\ calls = <<>>
  /\ lifecycle = "rendered"
  /\ lastRequestedBase = <<>>
  /\ newestDone = TRUE
  /\ lastLoadedModels = <<>>
  /\ ev = EvOther("init")

\* lines 424-428, with the first run of the other effects
Mount ==
  /\ lifecycle = "rendered"
  /\ Finish(St,
            [St EXCEPT !.lifecycle = "mounted",
                       !.selectedCloudProvider =
                          IF localReasoningProvider \in Range(cloudProviders)
                            THEN localReasoningProvider ELSE @],
            EvOther("mount"))

\* lines 154-158
Unmount ==
  /\ lifecycle = "mounted"
  /\ Finish(St, [St EXCEPT !.lifecycle = "unmounted", !.isMountedRef = FALSE],
            EvOther("unmount"))

\* line 569
EditBase(value) ==
  /\ lifecycle = "mounted"
  /\ selectedCloudProvider = "custom"
  /\ Finish(St, [St EXCEPT !.customBaseInput = value], EvOther("user"))

\* line 578
ClickReset ==
  /\ lifecycle = "mounted"
  /\ selectedCloudProvider = "custom"
  /\ Finish(St, handleResetCustomBase(St), EvOther("user"))

\* lines 586-587
ClickRefresh ==
  /\ lifecycle = "mounted"
  /\ selectedCloudProvider = "custom"
  /\ ~RefreshDisabled(St)
  /\ Finish(St, handleRefreshCustomModels(St), EvOther("user"))

\* line 543
ClickProvider(provider) ==
  /\ lifecycle = "mounted"
  /\ Finish(St, handleCloudProviderChange(St, provider), EvOther("user"))

\* lines 634 and 645: onModelSelect of the picker, which lists selectedCloudModels
SelectModel(model) ==
  /\ lifecycle = "mounted"
  /\ model \in Range(selectedCloudModels)
  /\ Finish(St, [St EXCEPT !.reasoningModel = model], EvOther("user"))

\* lines 602-606 and 654-658
EditOpenaiKey(key) ==
  /\ lifecycle = "mounted"
  /\ selectedCloudProvider \in {"openai", "custom"}
  /\ Finish(St, [St EXCEPT !.openaiApiKey = key], EvOther("user"))

\* A call of loadRemoteModels that starts after the cleanup of lines 154-158 ran.
CallAfterTeardown(base, force) ==
  /\ lifecycle = "unmounted"
  /\ Finish(St, LoadRemoteModels(St, ClosureOf(St), TRUE, base, force), EvOther("late"))

\* line 230: the vault answers
KeyResolved(i, key) ==
  /\ i \in DOMAIN calls
  /\ calls[i].pc = "key"
  /\ Finish(St, ResumeAfterKey(St, i, key),
            EvCont("key", calls[i],
                   IF ProceedsToFetch(calls[i].base) THEN "suspended" ELSE "rejected",
                   key, <<>>, <<>>))

\* line 230: the vault call throws
KeyRejected(i, thrown) ==
  /\ i \in DOMAIN calls
  /\ calls[i].pc = "key"
  /\ Finish(St, Catch(St, i, thrown), EvCont("key", calls[i], "failed", <<>>, thrown, <<>>))

\* line 266: fetch throws
FetchRejected(i, thrown) ==
  /\ i \in DOMAIN calls
  /\ calls[i].pc = "fetch"
  /\ Finish(St, Catch(St, i, thrown),
            EvCont("fetch", calls[i], "failed", calls[i].apiKey, thrown, <<>>))

\* line 266: fetch resolves with a response
FetchResponded(i, response) ==
  /\ i \in DOMAIN calls
  /\ calls[i].pc = "fetch"
  /\ Finish(St,
            [St EXCEPT !.calls[i].pc = "body",
                       !.calls[i].status = response.status,
                       !.calls[i].statusText = response.statusText],
            EvCont("fetch", calls[i], "suspended", calls[i].apiKey, <<>>, <<>>))

\* lines 273-279: the body of a non-2xx response has been read
ErrorBodyRead(i, errorText) ==
  /\ i \in DOMAIN calls
  /\ calls[i].pc = "body"
  /\ ~ResponseOk(calls[i].status)
  /\ Finish(St,
            Catch(St, i, HttpErrorSummary(calls[i].status, calls[i].statusText, errorText)),
            EvCont("body", calls[i], "failed", calls[i].apiKey, errorText, <<>>))

\* lines 281-325: the body of a 2xx response has been read
JsonRead(i, payload) ==
  /\ i \in DOMAIN calls
  /\ calls[i].pc = "body"
  /\ ResponseOk(calls[i].status)
  /\ Finish(St, ApplyPayload(St, i, payload),
            EvCont("body", calls[i], "loaded", calls[i].apiKey, <<>>,
                   MappedModels(RawModels(payload))))

(* --------------------------- specifications -------------------------- *)

\* The tasks of a mounted component, with the environment's choices drawn from
\* the given sets: what the user types and clicks, what the host holds as the
\* OpenAI key, what the vault, fetch and the response bodies yield.
Tasks(urls, providers, keys, vaultKeys, thrown, responses, errorBodies, payloads) ==
  \/ Mount
  \/ \E value \in urls : EditBase(value)
  \/ ClickReset
  \/ ClickRefresh
  \/ \E provider \in providers : ClickProvider(provider)
  \/ \E model \in {"gpt-a", "claude-a", "m1", "m2"} : SelectModel(model)
  \/ \E key \in keys : EditOpenaiKey(key)
  \/ \E i \in DOMAIN calls, key \in vaultKeys : KeyResolved(i, key)
  \/ \E i \in DOMAIN calls, message \in thrown : KeyRejected(i, message)
  \/ \E i \in DOMAIN calls, message \in thrown : FetchRejected(i, message)
  \/ \E i \in DOMAIN calls, response \in responses : FetchResponded(i, response)
  \/ \E i \in DOMAIN calls, errorText \in errorBodies : ErrorBodyRead(i, errorText)
  \/ \E i \in DOMAIN calls, payload \in payloads : JsonRead(i, payload)

Init == Constructed({<<>>, UrlHttpsA}, MaxCalls)

Next ==
  Tasks({<<>>, UrlHttpsA}, {"openai", "custom"}, {<<>>}, {<<>>}, {<<>>},
        {Ok, ServerError}, {<<>>}, {PayloadNone, PayloadData})

\* Overlapping invocations on a mounted component.
Spec == Init /\ [][Next]_vars

InitStale == Constructed({UrlHttpsA}, MaxCalls)

NextStale ==
  Tasks({<<>>, UrlHttpsA}, {"custom"}, {<<>>}, {<<>>}, {<<>>},
        {Ok, ServerError}, {<<>>}, {PayloadData})

\* Overlapping invocations for the endpoint the user typed and the default one.
SpecStale == InitStale /\ [][NextStale]_vars

InitTeardown == Constructed({<<>>}, MaxCallsAlone)

NextTeardown ==
  \/ Tasks({UrlHttpsA}, {"custom"}, {<<>>, <<"k">>}, {<<>>}, {<<>>},
           {Ok, ServerError}, {<<>>}, {PayloadData})
  \/ Unmount
  \/ \E base \in {<<>>, UrlHttpsA, UrlNoScheme}, force \in BOOLEAN :
       CallAfterTeardown(base, force)

\* The component is torn down while invocations are suspended.
SpecTeardown == InitTeardown /\ [][NextTeardown]_vars

InitScheme == Constructed({<<>>}, MaxCallsAlone)

NextScheme ==
  Tasks({<<>>, UrlNoScheme, UrlHttpsA}, {"custom"}, {<<>>, <<"k">>}, {<<>>}, {<<>>},
        {Ok, ServerError}, {<<>>}, {PayloadData})

\* Loads of an empty, a scheme-less and a fetchable base.
SpecScheme == InitScheme /\ [][NextScheme]_vars

InitUrl == Constructed({<<>>}, MaxCallsAlone)

NextUrl ==
  Tasks({<<>>, UrlHttpsA, UrlHttpsASlash, UrlHttpB, UrlLocalhost, UrlLookalike, UrlNoScheme},
        {"openai", "anthropic", "custom"}, {<<>>, <<"k">>, <<" ">>}, {<<>>, <<"k">>}, {<<>>},
        {Ok, ServerError}, {<<>>}, {PayloadNone, PayloadModels})

\* One invocation at a time, for every kind of base URL.
SpecUrl == InitUrl /\ [][NextUrl]_vars

InitHttp == Constructed({<<>>}, MaxCallsAlone)

NextHttp ==
  Tasks({UrlHttpsA}, {"openai", "custom"}, {<<>>, <<"k">>}, {<<>>, <<"k">>},
        {<<>>, <<"n","e","t">>},
        {Ok, Unauthorized, ServerError}, {<<>>, Body401, LongBody},
        {PayloadNone, PayloadData, PayloadModels})

\* One invocation at a time, for every kind of response.
SpecHttp == InitHttp /\ [][NextHttp]_vars

InitExits == Constructed({UrlHttpsA}, MaxCalls)

NextExits ==
  Tasks({<<>>, UrlNoScheme, UrlHttpsA}, {"openai", "custom"}, {<<>>}, {<<>>}, {<<>>},
        {Ok, ServerError}, {<<>>}, {PayloadData})

\* Overlapping invocations that end on every exit path: a 2xx body, a non-2xx
\* response, a rejected base, a thrown exception.
SpecExits == InitExits /\ [][NextExits]_vars

UrlSlash == <<"/">>

InitEmpty == Constructed({UrlHttpsA}, MaxCalls)

NextEmpty ==
  Tasks({<<>>, UrlSlash, UrlHttpsA}, {"openai", "custom"}, {<<>>}, {<<>>}, {<<>>},
        {Ok, ServerError}, {<<>>}, {PayloadData})

\* The base field is emptied, or set to a base that normalizes to the empty
\* string, between and during loads.
SpecEmpty == InitEmpty /\ [][NextEmpty]_vars

(* ------------------------------- claims ------------------------------- *)

LoaderOutput ==
  <<customModelOptions, customModelsError, customModelsLoading, reasoningModel,
    lastLoadedBaseRef>>

\* C1: a continuation of an invocation for base B1, taken when the latest call
\* of loadRemoteModels was for another base B2, changes none of the option list,
\* the error, the loading flag, the selected model and the last-loaded key.
C1_StaleCompletionIsNoOp ==
  [][(ev'.op \in ContinuationOps /\ ev'.base # lastRequestedBase)
       => UNCHANGED LoaderOutput]_vars

\* A 2xx body has been read for an invocation superseded by a load of another
\* base that is still in flight.
C1_Witness ==
  /\ ev.op = "body" /\ ev.outcome = "loaded" /\ ev.models # <<>>
  /\ ev.base # lastRequestedBase
  /\ \E i \in DOMAIN calls : calls[i].base = lastRequestedBase

\* C2: of two overlapping non-forced invocations for the same normalized base,
\* the later one issues no request: they have not both called fetch.
C2_SecondCallIssuesNoRequest ==
  \A i, j \in DOMAIN calls :
    (i < j /\ calls[i].base = calls[j].base /\ ~calls[i].force /\ ~calls[j].force)
      => ~(calls[i].pc \in {"fetch", "body"} /\ calls[j].pc \in {"fetch", "body"})

\* C5: while the custom tab is shown and the base field is dirty, the list
\* handed to the model picker is empty.
C5_DirtyShowsNoModels ==
  (lifecycle = "mounted" /\ selectedCloudProvider = "custom" /\ isCustomBaseDirty(St))
    => selectedCloudModels = <<>>

\* C7: when a 2xx body is applied, the selection becomes the first entry iff the
\* list is non-empty and the model selected at that moment is not in it, and is
\* otherwise left as it is.
C7_AutoSelectFromCurrentSelection ==
  [][(ev'.op = "body" /\ ev'.outcome = "loaded" /\ ev'.applied)
       => reasoningModel' =
            IF ev'.models # <<>> /\ reasoningModel \notin Range(ev'.models)
              THEN ev'.models[1] ELSE reasoningModel]_vars

\* C9: an invocation that finishes after the latest accepted invocation has
\* finished leaves the option list and the error as they are.
C9_LastRequestWins ==
  [][(ev'.op \in ContinuationOps /\ ev'.outcome # "suspended" /\ newestDone)
       => UNCHANGED <<customModelOptions, customModelsError>>]_vars

\* C10: no two invocations await a fetch for the same normalized base.
C10_OneFetchPerBase ==
  \A i, j \in DOMAIN calls :
    (i # j /\ calls[i].pc = "fetch" /\ calls[j].pc = "fetch")
      => calls[i].base # calls[j].base

\* The scheme and the host of a URL: what precedes the first "://", and what
\* follows it up to the port, path, query or fragment.
RECURSIVE SchemeEnd(_, _)
SchemeEnd(url, p) ==
  IF p + 2 > Len(url) THEN 0
  ELSE IF SubSeq(url, p, p + 2) = <<":", "/", "/">> THEN p
  ELSE SchemeEnd(url, p + 1)

SchemeOf(url) == SubSeq(url, 1, SchemeEnd(url, 1) - 1)

RECURSIVE UpToDelimiter(_)
UpToDelimiter(s) ==
  IF s = <<>> \/ Head(s) \in {"/", ":", "?", "#"} THEN <<>>
  ELSE <<Head(s)>> \o UpToDelimiter(Tail(s))

HostOf(url) ==
  IF SchemeEnd(url, 1) = 0 THEN <<>>
  ELSE UpToDelimiter(SubSeq(url, SchemeEnd(url, 1) + 3, Len(url)))

IsHttpsOrLoopback(url) ==
  \/ SchemeOf(url) = <<"h", "t", "t", "p", "s">>
  \/ HostOf(url) \in {<<"l", "o", "c", "a", "l", "h", "o", "s", "t">>,
                      <<"1", "2", "7", ".", "0", ".", "0", ".", "1">>}

Requested == {"fetch", "body"}

\* C3: a request is issued only to a base whose scheme is https or whose host
\* is localhost or 127.0.0.1.
C3_FetchOnlyHttpsOrLoopback ==
  \A i \in DOMAIN calls : calls[i].pc \in Requested => IsHttpsOrLoopback(calls[i].base)

\* C4: no request is issued by an invocation whose normalized base is empty or
\* has no "://".
C4_NoFetchWithoutScheme ==
  \A i \in DOMAIN calls :
    calls[i].pc \in Requested
      => (calls[i].base # <<>> /\ SchemeEnd(calls[i].base, 1) # 0)

\* A load of a scheme-less base has run to its end and shows its error.
C4_Witness ==
  /\ customModelsError = MissingSchemeError
  /\ lastRequestedBase # <<>> /\ SchemeEnd(lastRequestedBase, 1) = 0
  /\ calls = <<>>

\* C6: the error a latest, mounted load shows for a non-2xx response is the
\* "Add an API key" hint when the status is 401 or 403 and no key was
\* resolved, and otherwise the status code followed by the first 200
\* characters of the body, or by the status text when the body is empty.
C6_HttpErrorShown ==
  (ev.op = "body" /\ ev.outcome = "failed" /\ ev.applied)
    => customModelsError =
         IF ev.status \in {401, 403} /\ ~ev.hadKey THEN AddApiKeyError
         ELSE Trim(StatusString(ev.status) \o <<" ">>
                   \o (IF ev.text # <<>> THEN SubSeq(ev.text, 1, IF Len(ev.text) < 200
                                                                   THEN Len(ev.text) ELSE 200)
                       ELSE ev.statusText))

\* C8: once the cleanup has run, no task changes the option list, the error,
\* the loading flag, the last-loaded key or the host's selected model.
C8_NoChangeAfterTeardown ==
  [][~isMountedRef => UNCHANGED LoaderOutput]_vars

\* After the cleanup, a 2xx body with models has been read for an invocation
\* whose base is still the latest one.
C8_Witness ==
  /\ ~isMountedRef
  /\ ev.op = "body" /\ ev.outcome = "loaded" /\ ev.models # <<>>
  /\ ev.base = latestReasoningBaseRef

\* C11: an invocation that finishes leaves the pending marker different from
\* its base, and whenever no invocation is in flight the marker is null.
C11_PendingReleased ==
  /\ calls = <<>> => pendingBaseRef = Null
  /\ (ev.op \in ContinuationOps /\ ev.outcome # "suspended") => pendingBaseRef # ev.base

\* The last invocation in flight has ended on a non-2xx response.
C11_Witness ==
  /\ calls = <<>>
  /\ ev.op = "body" /\ ev.outcome = "failed" /\ ev.base = lastRequestedBase

\* C12: on a mounted component with no invocation in flight, the loading flag
\* is false.
C12_LoadingEndsWithRequests ==
  (isMountedRef /\ calls = <<>>) => ~customModelsLoading

\* The last invocation to finish was stale: it ended after a load of another
\* base had been requested and had finished.
C12_Witness ==
  /\ isMountedRef /\ calls = <<>>
  /\ ev.op \in ContinuationOps /\ ev.outcome # "suspended"
  /\ ~ev.applied /\ ev.base # lastRequestedBase

\* C16: whenever the error is non-null the option list is empty.
C16_ErrorExcludesOptions ==
  customModelsError # Null => customModelOptions = <<>>

\* A load has failed for a base whose models an overlapping load had installed.
C16_Witness ==
  /\ customModelsError # Null
  /\ ev.op \in ContinuationOps /\ ev.outcome = "failed" /\ ev.applied
  /\ lastLoadedBaseRef = ev.base

\* C13: after a call of loadRemoteModels with an empty normalized base on a
\* mounted component, the option list is empty, loading is false, the error is
\* null and both lastLoadedBaseRef and pendingBaseRef are null.
C13_EmptyBaseClearsLoaderState ==
  \A after \in Range(ev.afterEmpty) :
    after = [options |-> <<>>, loading |-> FALSE, error |-> Null,
             lastLoadedBase |-> Null, pendingBase |-> Null]

\* The call with the empty base was made while an invocation was in flight.
C13_Witness ==
  ev.afterEmpty # <<>> /\ calls # <<>>

\* C15: while a provider other than custom is active, no continuation of
\* loadRemoteModels changes the selected model.
C15_SelectionStaysWithProvider ==
  [][(ev'.op \in ContinuationOps /\ selectedCloudProvider # "custom"
        /\ selectedCloudProvider' # "custom")
       => UNCHANGED reasoningModel]_vars

\* C14: whenever no invocation is in flight and lastLoadedBaseRef holds the
\* current normalized base, the option list is the one the most recent
\* successful load of that base installed and the error is null.
C14_CacheKeyCoherent ==
  (calls = <<>> /\ lastLoadedBaseRef # Null
     /\ lastLoadedBaseRef = normalizeBaseUrl(cloudReasoningBaseUrl))
    => (customModelOptions = lastLoadedModels /\ customModelsError = Null)

====
